---- MODULE Spec2Model ----
(***************************************************************************)
(* Model of src/database.ts (class Database<T>) and src/indexer.worker.ts. *)
(*                                                                         *)
(* The in-memory cache (memory), the pending deletions (deleted_keys), the *)
(* IndexedDB store (persist), the two debouncers (databaseUpdate and       *)
(* flushChanges), persistMemory with its two await points, the startup     *)
(* (load, then migrate, create or sync), the Indexer workers and the       *)
(* handlers of the vault's events.                                         *)
(*                                                                         *)
(* JavaScript runs one job at a time: every action below is the code       *)
(* between two await points (or one whole synchronous method).             *)
(***************************************************************************)
EXTENDS Integers, Sequences, FiniteSets, TLC

\* ------------------------------------------------------------------ bounds
\* Raw (JSON) payloads 1..MaxRaw and modification times 1..MaxTime.
MaxRaw == 2
MaxTime == 2
\* At most MaxCalls calls of storeKey/deleteKey/renameKey from outside, and
\* MaxRestarts process restarts.
MaxCalls == 3
MaxRestarts == 1
\* At most MaxDocs TFile objects, MaxWorkers workers, MaxEvents vault events.
MaxDocs == 3
MaxWorkers == 2
MaxEvents == 2
\* At most MaxUnloads calls of unload().
MaxUnloads == 1
MaxSessionEvents == 1
\* The configured version (stored versions are 0..Version, 0 for none).
Version == 2
\* bulk is 0 or BulkDocs.
BulkDocs == 100
\* syncDatabase, line 233: up to this many files are parsed on the main thread
ParseThreshold == 100

\* Keys are document paths.
Keys == {"a", "b"}
Times == 1..MaxTime

\* A value of type T: its JSON content and whether it carries its prototype
\* (a class instance) or is the plain object a structured clone leaves.
Data == [raw : 1..MaxRaw, proto : BOOLEAN]

VARIABLES
    memory,        \* Map<string, MemoryDatabaseItem<T>>
    deleted_keys,  \* Set<string>
    persist,       \* the localforage instance's content: key -> DatabaseItem<T>
    flush,         \* the running (or last settled) persistMemory call
    update_timer,  \* databaseUpdate debouncer: a call is scheduled
    flush_timer,   \* flushChanges debouncer: a call is scheduled
    outcome,       \* history: the last mutator called, and whether it threw 'Key does not exist'
    since,         \* history: mutations of memory since persistMemory last took its snapshot
    notified,      \* history: the payload of the last 'database-update' (<<>>: none yet),
                   \* and how many times databaseUpdate's callback has run
    calls,         \* history: calls made from outside
    restarts,      \* history: process restarts
    files,         \* the vault's TFile objects: status, path, stat.mtime
    bulk,          \* further markdown files of the vault, none cached, not followed one by one
    workers,       \* the constructor's `workers`
    stored_version,\* localStorage[name + '-version'] (0: no such item)
    boot,          \* the onLayoutReady callback: where it is, and its locals
    pool,          \* the Indexer workers that have not answered yet
    modifying,     \* 'modify' handlers waiting for extractValue
    events,        \* history: vault events so far
    registrations, \* EventComponent._events: the handlers that unload() will release
    unloads,       \* history: per call of unload(), the handlers it released, in order
    emitted,       \* history: the 'database-create' and 'database-migrate' emitted, in order
    gone,          \* history: paths whose 'delete' was handled, not created since
    skipped,       \* history: documents syncDatabase found up to date, with their entries then
    touched,       \* history: documents the sync or rebuild handed to the extractor
    stored         \* history: how many stores the sync or rebuild made per document

cacheVars == <<memory, deleted_keys, persist, flush, update_timer, flush_timer, outcome, since,
               notified>>
vaultVars == <<files, bulk, workers, stored_version, boot, pool, modifying, events,
               registrations, unloads, emitted>>
syncHistory == <<gone, skipped, touched, stored>>
vars == <<memory, deleted_keys, persist, flush, update_timer, flush_timer, outcome, since,
          notified, calls, restarts, files, bulk, workers, stored_version, boot, pool,
          modifying, events, registrations, unloads, emitted, gone, skipped, touched, stored>>

\* ------------------------------------------------------------------ maps
EmptyMap == [k \in {} |-> 0]

\* Map.set
MapSet(m, key, item) == [k \in DOMAIN m \cup {key} |-> IF k = key THEN item ELSE m[k]]

\* Map.delete
MapDelete(m, key) == [k \in DOMAIN m \ {key} |-> m[k]]

\* loadValue: the revival function (re-adds the prototype to a loaded value).
loadValue(data) == [data EXCEPT !.proto = TRUE]

\* What IndexedDB keeps of a value handed to setItems: its structured clone,
\* which has no prototype.
StructuredClone(data) == [data EXCEPT !.proto = FALSE]

\* getItem
getItem(key) == IF key \in DOMAIN memory THEN <<memory[key]>> ELSE <<>>

\* getValue of a cache m (null is <<>>)
getValue(m, key) == IF key \in DOMAIN m THEN <<m[key].data>> ELSE <<>>

\* allKeys
allKeys == DOMAIN memory

\* allEntries of a cache m
allEntries(m) == m

\* isEmpty
isEmpty == DOMAIN memory = {}

\* ------------------------------------------------------------ mutators
NoCall == [method |-> "none", threw |-> FALSE]
Returned(method) == [method |-> method, threw |-> FALSE]
Threw(method) == [method |-> method, threw |-> TRUE]

\* The history `since` after a store of `item` under `key`, or a delete of `key`.
SinceStore(key, item) == MapSet(since, key, <<item>>)
SinceDelete(key) == MapSet(since, key, <<>>)

\* storeKey, line 268: the cache after memory.set
StoreKeyMemory(m, key, value, mtime, dirty) ==
    MapSet(m, key, [data |-> value, mtime |-> mtime, dirty |-> dirty])

\* storeKey, line 268: deleted_keys is not touched by a store
StoreKeyDeleted(d, key) == d

KeyMissingNever(m, key) == FALSE

\* deleteKey, lines 273-274: the test before the throw
KeyMissing(m, key) == key \notin DOMAIN m

\* renameKey, lines 283-284: the test before the throw
OldKeyMissing(m, oldKey) == oldKey \notin DOMAIN m

\* deleteKey, lines 276-277
DeleteKeyMemory(m, key) == MapDelete(m, key)
DeleteKeyDeleted(d, key) == d \cup {key}

\* storeKey(key, value, mtime, dirty) called from outside
StoreKey(key, value, mtime, dirty) ==
    /\ memory' = StoreKeyMemory(memory, key, value, mtime, dirty)
    /\ deleted_keys' = StoreKeyDeleted(deleted_keys, key)
    /\ since' = SinceStore(key, [data |-> value, mtime |-> mtime, dirty |-> dirty])
    /\ update_timer' = TRUE
    /\ outcome' = Returned("storeKey")
    /\ UNCHANGED <<persist, flush, flush_timer, notified>>

\* deleteKey(key) called from outside
DeleteKey(key) ==
    IF KeyMissing(memory, key)
    THEN /\ outcome' = Threw("deleteKey")
         /\ UNCHANGED <<memory, deleted_keys, persist, flush, update_timer, flush_timer, since,
                        notified>>
    ELSE /\ memory' = DeleteKeyMemory(memory, key)
         /\ deleted_keys' = DeleteKeyDeleted(deleted_keys, key)
         /\ since' = SinceDelete(key)
         /\ update_timer' = TRUE
         /\ outcome' = Returned("deleteKey")
         /\ UNCHANGED <<persist, flush, flush_timer, notified>>

\* renameKey, lines 286-287: storeKey(newKey, value.data, mtime) then deleteKey(oldKey).
\* oldKey is present when the inner deleteKey runs unless newKey = oldKey, and
\* then the store has just put it there: the inner deleteKey never throws.
RenameKeyMemory(m, oldKey, newKey, mtime) ==
    DeleteKeyMemory(StoreKeyMemory(m, newKey, m[oldKey].data, mtime, TRUE), oldKey)

RenameKeyDeleted(d, oldKey, newKey) ==
    DeleteKeyDeleted(StoreKeyDeleted(d, newKey), oldKey)

\* renameKey(oldKey, newKey, mtime) called from outside
RenameKey(oldKey, newKey, mtime) ==
    IF OldKeyMissing(memory, oldKey)
    THEN /\ outcome' = Threw("renameKey")
         /\ UNCHANGED <<memory, deleted_keys, persist, flush, update_timer, flush_timer, since,
                        notified>>
    ELSE /\ memory' = RenameKeyMemory(memory, oldKey, newKey, mtime)
         /\ deleted_keys' = RenameKeyDeleted(deleted_keys, oldKey, newKey)
         /\ since' = MapSet(MapSet(since, newKey,
                               <<[data |-> memory[oldKey].data, mtime |-> mtime, dirty |-> TRUE]>>),
                            oldKey, <<>>)
         /\ update_timer' = TRUE
         /\ outcome' = Returned("renameKey")
         /\ UNCHANGED <<persist, flush, flush_timer, notified>>

\* ------------------------------------------------------- the debouncers
\* trigger('database-update', this.allEntries()) with the cache m, lines 76 and 126
Notice(m) == [notified EXCEPT !.payload = <<allEntries(m)>>]

DebounceRunKeeps(timer) == timer

\* debounce(cb, t, true): the run of cb takes the scheduled call away
DebounceRun(timer) == FALSE

\* databaseUpdate's callback, lines 66-69: emit 'database-update', call flushChanges.
UpdateFire ==
    /\ update_timer
    /\ update_timer' = DebounceRun(update_timer)
    /\ notified' = [payload |-> <<allEntries(memory)>>, runs |-> notified.runs + 1]
    /\ flush_timer' = TRUE
    /\ UNCHANGED <<memory, deleted_keys, persist, flush, outcome, since, calls, restarts>>
    /\ UNCHANGED <<vaultVars, syncHistory>>

\* ------------------------------------------------------- persistMemory
\* pc: where the call is; to_set, to_remove: its locals. History: pending0 is
\* deleted_keys when the call began, raced the keys of to_set that a storeKey
\* set again before the call settled.
FlushIdle == [pc |-> "idle", to_set |-> EmptyMap, to_remove |-> {}, pending0 |-> {}, raced |-> {}]

Raced == {k \in DOMAIN flush.to_set \cap DOMAIN since : since[k] # <<>>}

InFlight == flush.pc \in {"setItems", "removeItems"}

\* lines 254-260: to_set, the { data, mtime } of every dirty entry
ToSet(m) == [k \in {x \in DOMAIN m : m[x].dirty} |-> [data |-> m[k].data, mtime |-> m[k].mtime]]

\* line 258: every dirty entry is set again with dirty: false, before the write
MarkClean(m) == [k \in DOMAIN m |-> [m[k] EXCEPT !.dirty = FALSE]]

MemoryCleanedAfterSetItems(m, to_set) ==
    [k \in DOMAIN m |-> IF k \in DOMAIN to_set THEN [m[k] EXCEPT !.dirty = FALSE] ELSE m[k]]

\* the cache when setItems has resolved: persistMemory does not touch it again
MemoryAfterSetItems(m, to_set) == m

\* line 262: what setItems leaves in the store
SetItems(p, to_set) ==
    [k \in DOMAIN p \cup DOMAIN to_set |->
        IF k \in DOMAIN to_set
        THEN [data |-> StructuredClone(to_set[k].data), mtime |-> to_set[k].mtime]
        ELSE p[k]]

\* line 263: what the removeItem calls that succeeded leave in the store
RemoveItems(p, keys) == [k \in DOMAIN p \ keys |-> p[k]]

\* flushChanges's callback, line 75, and persistMemory up to its first await (line 262).
\* The model runs one persistMemory at a time: the debouncer fires when the
\* previous call has settled.
FlushFire ==
    /\ flush_timer
    /\ ~InFlight
    /\ flush_timer' = FALSE
    /\ flush' = [pc |-> "setItems", to_set |-> ToSet(memory), to_remove |-> {},
                 pending0 |-> deleted_keys, raced |-> {}]
    /\ memory' = MarkClean(memory)
    /\ since' = EmptyMap
    /\ UNCHANGED <<deleted_keys, persist, update_timer, outcome, notified, calls, restarts>>
    /\ UNCHANGED <<vaultVars, syncHistory>>

\* setItems resolves; line 263 issues a removeItem per pending key. With no
\* pending key Promise.all resolves in the same job and line 264 clears nothing.
\* When persistMemory has resolved, line 76 emits 'database-update'.
SetItemsResolve ==
    /\ flush.pc = "setItems"
    /\ persist' = SetItems(persist, flush.to_set)
    /\ memory' = MemoryAfterSetItems(memory, flush.to_set)
    /\ flush' = IF deleted_keys = {}
                THEN [flush EXCEPT !.pc = "resolved", !.raced = Raced]
                ELSE [flush EXCEPT !.pc = "removeItems", !.to_remove = deleted_keys]
    /\ notified' = IF deleted_keys = {} THEN Notice(memory') ELSE notified
    /\ UNCHANGED <<deleted_keys, update_timer, flush_timer, outcome, since, calls, restarts>>
    /\ UNCHANGED <<vaultVars, syncHistory>>

\* setItems rejects: persistMemory throws out of line 262
SetItemsReject ==
    /\ flush.pc = "setItems"
    /\ flush' = [flush EXCEPT !.pc = "rejected", !.raced = Raced]
    /\ UNCHANGED <<memory, deleted_keys, persist, update_timer, flush_timer, outcome, since,
                   notified, calls, restarts>>
    /\ UNCHANGED <<vaultVars, syncHistory>>

\* every removeItem resolves; line 264 clears deleted_keys
RemoveItemsResolve ==
    /\ flush.pc = "removeItems"
    /\ persist' = RemoveItems(persist, flush.to_remove)
    /\ deleted_keys' = {}
    /\ flush' = [flush EXCEPT !.pc = "resolved", !.raced = Raced]
    /\ notified' = Notice(memory)
    /\ UNCHANGED <<memory, update_timer, flush_timer, outcome, since, calls, restarts>>
    /\ UNCHANGED <<vaultVars, syncHistory>>

\* some removeItem rejects (those of `done` went through): Promise.all rejects
\* and line 264 is not reached
RemoveItemsReject ==
    /\ flush.pc = "removeItems"
    /\ \E done \in SUBSET flush.to_remove :
          /\ done # flush.to_remove
          /\ persist' = RemoveItems(persist, done)
    /\ flush' = [flush EXCEPT !.pc = "rejected", !.raced = Raced]
    /\ UNCHANGED <<memory, deleted_keys, update_timer, flush_timer, outcome, since, notified,
                   calls, restarts>>
    /\ UNCHANGED <<vaultVars, syncHistory>>

\* ------------------------------------------------------------- restart
LoadItemDirty(item) == [data |-> loadValue(item.data), mtime |-> item.mtime, dirty |-> TRUE]

\* loadDatabase, lines 170-178: every stored item, its data through loadValue.
\* A loaded item has no dirty field (falsy).
LoadItem(item) == [data |-> loadValue(item.data), mtime |-> item.mtime, dirty |-> FALSE]

LoadDatabase(p) == [k \in DOMAIN p |-> LoadItem(p[k])]

\* The process ends (what was only in memory, and a persistMemory in flight, are
\* gone) and a new Database is constructed on the same store: lines 124-126.
Restart ==
    /\ memory' = LoadDatabase(persist)
    /\ deleted_keys' = {}
    /\ flush' = FlushIdle
    /\ update_timer' = FALSE
    /\ flush_timer' = FALSE
    /\ outcome' = NoCall
    /\ since' = EmptyMap
    /\ notified' = Notice(LoadDatabase(persist))
    /\ UNCHANGED persist

\* ============================================================ the vault
Docs == 1..MaxDocs

AllPaths == <<"a", "b", "c", "d", "e", "f", "g", "h">>
Paths == {AllPaths[i] : i \in 1..MaxDocs}

Unborn == [status |-> "unborn", path |-> "", mtime |-> 0]

Live == {f \in Docs : files[f].status = "live"}
LivePaths == {files[f].path : f \in Live}

RECURSIVE SortedSeq(_)
SortedSeq(S) ==
    IF S = {} THEN <<>>
    ELSE LET m == CHOOSE x \in S : \A y \in S : x <= y
         IN <<m>> \o SortedSeq(S \ {m})

Range(q) == {q[j] : j \in 1..Len(q)}

\* vault.getMarkdownFiles(): the documents followed one by one (the bulk comes
\* after them in the list)
MarkdownFiles == SortedSeq(Live)

\* vault.cachedRead(file): the text of the document as last modified
Text(f) == [doc |-> f, rev |-> files[f].mtime]

\* indexer.worker.ts, lines 4-10: the worker's result for one text, as
\* postMessage delivers it (a structured clone)
Nodes(text) == [raw |-> text, proto |-> FALSE]

\* extractValue(file): the value of the text
extractValue(text) == [raw |-> text, proto |-> TRUE]

\* defaultValue()
defaultValue == [raw |-> [doc |-> 0, rev |-> 0], proto |-> TRUE]

StaleOrEqual(m, path, mtime) == path \notin DOMAIN m \/ m[path].mtime <= mtime

\* lines 189 and 232: the entry is missing or older than the file
Stale(m, path, mtime) == path \notin DOMAIN m \/ m[path].mtime < mtime

\* The cache, the pending deletions and the history `since` as one value, for
\* the methods that make several stores or deletes in one job.
CacheState == [m |-> memory, d |-> deleted_keys, s |-> since]

ApplyStore(st, key, value, mtime) ==
    [m |-> StoreKeyMemory(st.m, key, value, mtime, TRUE),
     d |-> StoreKeyDeleted(st.d, key),
     s |-> MapSet(st.s, key, <<[data |-> value, mtime |-> mtime, dirty |-> TRUE]>>)]

ApplyDelete(st, key) ==
    [m |-> DeleteKeyMemory(st.m, key),
     d |-> DeleteKeyDeleted(st.d, key),
     s |-> MapSet(st.s, key, <<>>)]

\* lines 226-229: deleteKey for every key of `keys` (each is in the cache)
RECURSIVE DeleteKeys(_, _)
DeleteKeys(st, keys) ==
    IF keys = {} THEN st
    ELSE LET k == CHOOSE x \in keys : TRUE
         IN DeleteKeys(ApplyDelete(st, k), keys \ {k})

SetCache(st) ==
    /\ memory' = st.m
    /\ deleted_keys' = st.d
    /\ since' = st.s

\* ------------------------------------------------------- the worker pool
Min(x, y) == IF x <= y THEN x ELSE y

ChunkSizeFloor(n, w) == n \div w

\* line 201: Math.ceil(files.length / this.workers)
ChunkSize(n, w) == (n + w - 1) \div w

\* lines 205-206: files.slice(i * chunk_size, (i + 1) * chunk_size), i from 0
Slice(list, i, chunk_size) ==
    SubSeq(list, i * chunk_size + 1, Min((i + 1) * chunk_size, Len(list)))

\* lines 203-216: worker i with its files_chunk and what it will post back,
\* one result per text of read_files_chunk, in order. n is files.length.
Dispatch(list, n, w) ==
    [i \in 0..(w - 1) |->
        LET chunk == Slice(list, i, ChunkSize(n, w))
        IN [chunk |-> chunk, data |-> [j \in 1..Len(chunk) |-> Nodes(Text(chunk[j]))]]]

\* lines 208-212: the stores of worker.onmessage, from position j on
RECURSIVE StoreChunk(_, _, _, _)
StoreChunk(st, chunk, data, j) ==
    IF j > Len(chunk) THEN st
    ELSE StoreChunk(ApplyStore(st, files[chunk[j]].path, loadValue(data[j]),
                               files[chunk[j]].mtime),
                    chunk, data, j + 1)

CountIn(chunk, f) == Cardinality({j \in 1..Len(chunk) : chunk[j] = f})

\* worker.onmessage, lines 207-214
WorkerRespond(i) ==
    /\ i \in DOMAIN pool
    /\ SetCache(StoreChunk(CacheState, pool[i].chunk, pool[i].data, 1))
    /\ update_timer' = (update_timer \/ Len(pool[i].chunk) > 0)
    /\ outcome' = IF Len(pool[i].chunk) > 0 THEN Returned("storeKey") ELSE outcome
    /\ pool' = MapDelete(pool, i)
    /\ stored' = [f \in Docs |-> stored[f] + CountIn(pool[i].chunk, f)]
    /\ UNCHANGED <<persist, flush, flush_timer, notified, calls, restarts>>
    /\ UNCHANGED <<files, bulk, workers, stored_version, boot, modifying, events>>
    /\ UNCHANGED <<registrations, unloads, emitted, gone, skipped, touched>>

\* ------------------------------------------------------------- startup
\* The onLayoutReady callback, lines 122-164. pc: the await it is at ("load":
\* line 124, "clear": line 347, "read": line 200, "extract": line 190, "bulk":
\* line 190 for the bulk, "ready": the handlers of lines 144-162 are
\* registered); label: the branch of lines 131-140; list, i: files and i of
\* regularParseFiles or workerParseFiles; path, value: file.path as evaluated
\* before the await of line 190 and what extractValue will resolve to.
BootAt(pc, label) == [pc |-> pc, label |-> label, list |-> <<>>, i |-> 0, path |-> "",
                      value |-> defaultValue]

\* lines 144-162: the four registerEvent calls, in order
Handlers == <<"modify", "delete", "rename", "create">>

\* a handler of lines 144-162 is attached to the vault
Registered == registrations # <<>>

MigratesAnyCache(old, m) == old # 0 /\ old < Version

\* line 131: the test for a migration, with the stored version (0: none) and
\* the loaded cache m
Migrates(old, m) == old # 0 /\ old < Version /\ DOMAIN m # {}

\* lines 134 and 137: what the branch `label` emits when its rebuild returns
Emits(label) == IF label = "migrate" THEN <<"database-migrate">>
                ELSE IF label = "create" THEN <<"database-create">> ELSE <<>>

\* History: the documents among `docs` whose entry in the cache m is not older
\* than the file, with that entry.
UpToDate(m, docs) ==
    [f \in {x \in docs : files[x].path \in DOMAIN m /\ m[files[x].path].mtime >= files[x].mtime}
        |-> [path |-> files[f].path, entry |-> m[files[f].path]]]

Merge(f1, f2) == [x \in DOMAIN f1 \cup DOMAIN f2 |-> IF x \in DOMAIN f1 THEN f1[x] ELSE f2[x]]

\* regularParseFiles, lines 186-189: from position i with the cache m, the
\* first position whose file passes the test of line 189 (0: none)
NextToParse(m, list, i) ==
    LET hits == {j \in i..Len(list) : Stale(m, files[list[j]].path, files[list[j]].mtime)}
    IN IF hits = {} THEN 0 ELSE CHOOSE j \in hits : \A x \in hits : j <= x

\* regularParseFiles goes on from position i with the cache m: to its next
\* await (line 190), or to its end; then the bulk is parsed, then lines 238
\* and 144-162. `seen` is the history skipped so far.
RegularParse(m, list, i, label, seen) ==
    LET j == NextToParse(m, list, i)
        passed == {list[x] : x \in i..(IF j = 0 THEN Len(list) ELSE j - 1)}
    IN /\ skipped' = Merge(seen, UpToDate(m, passed))
       /\ IF j # 0
          THEN /\ boot' = [pc |-> "extract", label |-> label, list |-> list, i |-> j,
                           path |-> files[list[j]].path,
                           value |-> extractValue(Text(list[j]))]
               /\ touched' = touched \cup {list[j]}
               /\ UNCHANGED <<stored_version, registrations>>
          ELSE IF bulk > 0
          THEN /\ boot' = [BootAt("bulk", label) EXCEPT !.list = list]
               /\ UNCHANGED <<touched, stored_version, registrations>>
          ELSE /\ boot' = [BootAt("ready", label) EXCEPT !.list = list]
               /\ stored_version' = Version
               /\ registrations' = registrations \o Handlers
               /\ UNCHANGED touched

FilesToParseMissing(m) ==
    SelectSeq(MarkdownFiles, LAMBDA f : files[f].path \notin DOMAIN m)

\* line 232: the files syncDatabase hands on, with the cache m
FilesToParse(m) ==
    SelectSeq(MarkdownFiles, LAMBDA f : Stale(m, files[f].path, files[f].mtime))

\* syncDatabase, lines 225-236, with the loaded cache m
SyncDatabase(m) ==
    LET vanished == DOMAIN m \ LivePaths
        st == DeleteKeys([m |-> m, d |-> deleted_keys, s |-> since], vanished)
        filesToParse == FilesToParse(st.m)
    IN /\ SetCache(st)
       /\ update_timer' = (update_timer \/ vanished # {})
       /\ outcome' = IF vanished # {} THEN Returned("deleteKey") ELSE outcome
       /\ IF Len(filesToParse) + bulk <= ParseThreshold
          THEN RegularParse(st.m, filesToParse, 1, "sync", UpToDate(st.m, Live))
          ELSE /\ boot' = [BootAt("read", "sync") EXCEPT !.list = filesToParse]
               /\ skipped' = UpToDate(st.m, Live)
               /\ UNCHANGED <<touched, stored_version, registrations>>

\* loadDatabase resolves (line 124); lines 126-140 up to the next await
BootLoad ==
    /\ boot.pc = "load"
    /\ LET m == LoadDatabase(persist)
       IN IF Migrates(stored_version, m)
          THEN \* clearDatabase, line 346, up to the await of line 347
               /\ memory' = EmptyMap
               /\ boot' = BootAt("clear", "migrate")
               /\ UNCHANGED <<deleted_keys, since, update_timer, outcome, skipped, touched,
                              stored_version, registrations>>
          ELSE IF DOMAIN m = {}
          THEN \* rebuildDatabase, line 245, up to the await of line 200
               /\ memory' = m
               /\ boot' = [BootAt("read", "create") EXCEPT !.list = MarkdownFiles]
               /\ UNCHANGED <<deleted_keys, since, update_timer, outcome, skipped, touched,
                              stored_version, registrations>>
          ELSE SyncDatabase(m)
    /\ notified' = Notice(LoadDatabase(persist))
    /\ UNCHANGED <<persist, flush, flush_timer, calls, restarts>>
    /\ UNCHANGED <<files, bulk, workers, pool, modifying, events, unloads, emitted, gone, stored>>

\* persist.clear() resolves (line 347); rebuildDatabase up to the await of line 200
BootClearDone ==
    /\ boot.pc = "clear"
    /\ persist' = EmptyMap
    /\ boot' = [BootAt("read", "migrate") EXCEPT !.list = MarkdownFiles]
    /\ UNCHANGED <<memory, deleted_keys, flush, update_timer, flush_timer, outcome, since,
                   notified, calls, restarts>>
    /\ UNCHANGED <<files, bulk, workers, stored_version, pool, modifying, events>>
    /\ UNCHANGED <<registrations, unloads, emitted>>
    /\ UNCHANGED syncHistory

\* The reads of line 200 resolve: lines 201-218, then line 246 or 238, the
\* event of line 134 or 137, and the registrations of lines 144-162.
BootReadDone ==
    /\ boot.pc = "read"
    /\ pool' = Dispatch(boot.list, Len(boot.list) + bulk, workers)
    /\ touched' = touched \cup Range(boot.list)
    /\ stored_version' = Version
    /\ boot' = [BootAt("ready", boot.label) EXCEPT !.list = boot.list]
    /\ emitted' = emitted \o Emits(boot.label)
    /\ registrations' = registrations \o Handlers
    /\ UNCHANGED <<cacheVars, calls, restarts>>
    /\ UNCHANGED <<files, bulk, workers, modifying, events, unloads, gone, skipped, stored>>

\* extractValue resolves in regularParseFiles: the store of line 190, with
\* file.stat.mtime as it is now, and the loop goes on
BootExtractDone ==
    /\ boot.pc = "extract"
    /\ LET f == boot.list[boot.i]
           st == ApplyStore(CacheState, boot.path, boot.value, files[f].mtime)
       IN /\ SetCache(st)
          /\ stored' = [stored EXCEPT ![f] = @ + 1]
          /\ RegularParse(st.m, boot.list, boot.i + 1, boot.label, skipped)
    /\ update_timer' = TRUE
    /\ outcome' = Returned("storeKey")
    /\ UNCHANGED <<persist, flush, flush_timer, notified, calls, restarts>>
    /\ UNCHANGED <<files, bulk, workers, pool, modifying, events, unloads, emitted, gone>>

\* regularParseFiles is through with the bulk: line 238 and lines 144-162
BootBulkDone ==
    /\ boot.pc = "bulk"
    /\ boot' = [boot EXCEPT !.pc = "ready"]
    /\ stored_version' = Version
    /\ registrations' = registrations \o Handlers
    /\ UNCHANGED <<cacheVars, calls, restarts>>
    /\ UNCHANGED <<files, bulk, workers, pool, modifying, events, unloads, emitted>>
    /\ UNCHANGED syncHistory

\* ------------------------------------------------------- vault events
\* Each action is a change of the vault and, when the handlers are registered,
\* the handler of lines 144-162 up to its first await.
VaultEvent ==
    /\ events < MaxEvents
    /\ events' = events + 1
    /\ UNCHANGED <<calls, restarts, bulk, workers, stored_version, boot, pool, skipped,
                   touched, stored, registrations, unloads, emitted>>

\* a markdown file is created at path; 'create', lines 160-162
VaultCreate(f, path, mtime) ==
    /\ VaultEvent
    /\ files[f].status = "unborn"
    /\ \A g \in Docs : files[g].status = "unborn" => f <= g
    /\ path \notin LivePaths
    /\ files' = [files EXCEPT ![f] = [status |-> "live", path |-> path, mtime |-> mtime]]
    /\ IF Registered
       THEN StoreKey(path, defaultValue, mtime, TRUE) /\ gone' = gone \ {path}
       ELSE UNCHANGED <<cacheVars, gone>>
    /\ UNCHANGED modifying

\* a markdown file is modified; 'modify', lines 144-148 up to the await
VaultModify(f) ==
    /\ VaultEvent
    /\ files[f].status = "live"
    /\ files[f].mtime < MaxTime
    /\ files' = [files EXCEPT ![f].mtime = @ + 1]
    /\ modifying' = IF Registered
                    THEN modifying \cup {[doc |-> f, path |-> files[f].path,
                                          value |-> extractValue([doc |-> f, rev |-> files[f].mtime + 1])]}
                    ELSE modifying
    /\ UNCHANGED <<cacheVars, gone>>

\* extractValue resolves in a 'modify' handler: the store of line 148
ModifyDone(h) ==
    /\ h \in modifying
    /\ modifying' = modifying \ {h}
    /\ StoreKey(h.path, h.value, files[h.doc].mtime, TRUE)
    /\ UNCHANGED <<calls, restarts, files, bulk, workers, stored_version, boot, pool, events>>
    /\ UNCHANGED <<registrations, unloads, emitted>>
    /\ UNCHANGED syncHistory

\* a markdown file is deleted; 'delete', lines 152-154
VaultDelete(f) ==
    /\ VaultEvent
    /\ files[f].status = "live"
    /\ files' = [files EXCEPT ![f].status = "deleted"]
    /\ IF Registered
       THEN DeleteKey(files[f].path) /\ gone' = gone \cup {files[f].path}
       ELSE UNCHANGED <<cacheVars, gone>>
    /\ UNCHANGED modifying

\* a markdown file is renamed to path; 'rename', lines 156-158
VaultRename(f, path) ==
    /\ VaultEvent
    /\ files[f].status = "live"
    /\ path \notin LivePaths
    /\ files' = [files EXCEPT ![f].path = path]
    /\ IF Registered
       THEN RenameKey(files[f].path, path, files[f].mtime) /\ gone' = gone \ {path}
       ELSE UNCHANGED <<cacheVars, gone>>
    /\ UNCHANGED modifying

\* ------------------------------------------------------------- unload
Reverse(q) == [j \in 1..Len(q) |-> q[Len(q) + 1 - j]]

\* EventComponent.unload, lines 23-27: pops and runs every callback of _events
Unload ==
    /\ Len(unloads) < MaxUnloads
    /\ unloads' = Append(unloads, Reverse(registrations))
    /\ registrations' = <<>>
    /\ UNCHANGED <<cacheVars, calls, restarts>>
    /\ UNCHANGED <<files, bulk, workers, stored_version, boot, pool, modifying, events, emitted>>
    /\ UNCHANGED syncHistory

\* ======================================================= specifications
NoVault ==
    /\ files = [f \in Docs |-> Unborn]
    /\ bulk = 0
    /\ workers = 1
    /\ stored_version = 0
    /\ boot = BootAt("ready", "none")
    /\ pool = EmptyMap
    /\ modifying = {}
    /\ events = 0
    /\ registrations = <<>>
    /\ unloads = <<>>
    /\ emitted = <<>>
    /\ gone = {}
    /\ skipped = EmptyMap
    /\ touched = {}
    /\ stored = [f \in Docs |-> 0]

FreshCache ==
    /\ memory = EmptyMap
    /\ deleted_keys = {}
    /\ flush = FlushIdle
    /\ update_timer = FALSE
    /\ flush_timer = FALSE
    /\ outcome = NoCall
    /\ since = EmptyMap
    /\ notified = [payload |-> <<>>, runs |-> 0]
    /\ calls = 0
    /\ restarts = 0

\* ------------------------------------------- the cache and its flushes
\* The cache of a fresh Database under calls from outside, with the
\* debouncers, persistMemory and restarts (through loadDatabase, line 124).
Init ==
    /\ FreshCache
    /\ persist = EmptyMap
    /\ NoVault

Call == calls < MaxCalls /\ calls' = calls + 1 /\ UNCHANGED <<restarts, vaultVars, syncHistory>>

ApiStoreKey == \E key \in Keys, value \in Data, mtime \in Times, dirty \in BOOLEAN :
                   Call /\ StoreKey(key, value, mtime, dirty)

ApiDeleteKey == \E key \in Keys : Call /\ DeleteKey(key)

ApiRenameKey == \E oldKey \in Keys, newKey \in Keys, mtime \in Times :
                    Call /\ RenameKey(oldKey, newKey, mtime)

ProcessRestart ==
    /\ restarts < MaxRestarts
    /\ restarts' = restarts + 1
    /\ UNCHANGED <<calls, vaultVars, syncHistory>>
    /\ Restart

Next ==
    \/ ApiStoreKey
    \/ ApiDeleteKey
    \/ ApiRenameKey
    \/ UpdateFire
    \/ FlushFire
    \/ SetItemsResolve
    \/ SetItemsReject
    \/ RemoveItemsResolve
    \/ RemoveItemsReject
    \/ ProcessRestart

Spec == Init /\ [][Next]_vars

\* ------------------------------------- flushes when the store does not fail
\* storeKey(key, value, mtime): dirty takes its default, true
ApiStoreKeyDefault == \E key \in Keys, value \in Data, mtime \in Times :
                          Call /\ StoreKey(key, value, mtime, TRUE)

NextFlush ==
    \/ ApiStoreKeyDefault
    \/ ApiDeleteKey
    \/ ApiRenameKey
    \/ UpdateFire
    \/ FlushFire
    \/ SetItemsResolve
    \/ RemoveItemsResolve

\* The timers of the two debouncers run out, and setItems and removeItem settle.
SpecFlush ==
    /\ Init
    /\ [][NextFlush]_vars
    /\ WF_vars(UpdateFire)
    /\ WF_vars(FlushFire)
    /\ WF_vars(SetItemsResolve)
    /\ WF_vars(RemoveItemsResolve)

\* --------------------------------------- the startup and the vault events
\* What a previous session left in the store under path: nothing, or the
\* item of a document (doc f, or 0 for a document that is gone) as of mtime.
StoredItem(f, mtime) ==
    [data |-> StructuredClone(extractValue([doc |-> f, rev |-> mtime])), mtime |-> mtime]

DocAt(path, n) == IF \E f \in 1..n : AllPaths[f] = path
                  THEN CHOOSE f \in 1..n : AllPaths[f] = path ELSE 0

\* The stores a previous session can have left over the paths of `keys`, the
\* documents 1..n being at AllPaths[1..n].
Stores(keys, n) ==
    UNION {[ks -> Times] : ks \in SUBSET keys}

StoreOf(mt, n) == [k \in DOMAIN mt |-> StoredItem(DocAt(k, n), mt[k])]

\* A Database is constructed on a vault of MaxDocs - 1 documents and on what a
\* previous session left in the store and in localStorage.
InitSync ==
    /\ FreshCache
    /\ \E mt \in [1..(MaxDocs - 1) -> Times] :
          files = [f \in Docs |-> IF f < MaxDocs
                                  THEN [status |-> "live", path |-> AllPaths[f], mtime |-> mt[f]]
                                  ELSE Unborn]
    /\ \E mt \in Stores(Paths, MaxDocs - 1) : persist = StoreOf(mt, MaxDocs - 1)
    /\ bulk \in {0, BulkDocs}
    /\ workers \in 1..MaxWorkers
    /\ stored_version \in 0..Version
    /\ boot = BootAt("load", "none")
    /\ pool = EmptyMap
    /\ modifying = {}
    /\ events = 0
    /\ registrations = <<>>
    /\ unloads = <<>>
    /\ emitted = <<>>
    /\ gone = {}
    /\ skipped = EmptyMap
    /\ touched = {}
    /\ stored = [f \in Docs |-> 0]

NextSync ==
    \/ BootLoad
    \/ BootClearDone
    \/ BootReadDone
    \/ BootExtractDone
    \/ BootBulkDone
    \/ \E i \in 0..(MaxWorkers - 1) : WorkerRespond(i)
    \/ \E f \in Docs, path \in Paths, mtime \in Times : VaultCreate(f, path, mtime)
    \/ \E f \in Docs : VaultModify(f)
    \/ \E h \in modifying : ModifyDone(h)
    \/ \E f \in Docs : VaultDelete(f)
    \/ \E f \in Docs, path \in Paths : VaultRename(f, path)

SpecSync == InitSync /\ [][NextSync]_vars

\* ------------------------------------------- startup and the debouncers
\* The startup and the vault events, with the two debouncers and
\* persistMemory running (every write to the store succeeds).
SessionEvent == events < MaxSessionEvents

NextSession ==
    \/ BootLoad
    \/ BootClearDone
    \/ BootReadDone
    \/ BootExtractDone
    \/ BootBulkDone
    \/ \E i \in 0..(MaxWorkers - 1) : WorkerRespond(i)
    \/ SessionEvent /\ \E f \in Docs, path \in Paths, mtime \in Times : VaultCreate(f, path, mtime)
    \/ SessionEvent /\ \E f \in Docs : VaultModify(f)
    \/ \E h \in modifying : ModifyDone(h)
    \/ SessionEvent /\ \E f \in Docs : VaultDelete(f)
    \/ SessionEvent /\ \E f \in Docs, path \in Paths : VaultRename(f, path)
    \/ UpdateFire
    \/ FlushFire
    \/ SetItemsResolve
    \/ RemoveItemsResolve

SpecSession == InitSync /\ [][NextSession]_vars

\* ------------------------------------------------- startup and unload
\* The same, and unload() is called at any time.
NextUnload ==
    \/ NextSync
    \/ Unload

SpecUnload == InitSync /\ [][NextUnload]_vars

\* ------------------------------------------- a rebuild of a quiet vault
\* A Database is constructed on an empty store and a vault of n documents
\* that does not change.
InitRebuild ==
    /\ FreshCache
    /\ \E n \in 0..MaxDocs : \E mt \in [1..n -> Times] :
          files = [f \in Docs |-> IF f <= n
                                  THEN [status |-> "live", path |-> AllPaths[f], mtime |-> mt[f]]
                                  ELSE Unborn]
    /\ persist = EmptyMap
    /\ bulk = 0
    /\ workers \in 1..MaxWorkers
    /\ stored_version = 0
    /\ boot = BootAt("load", "none")
    /\ pool = EmptyMap
    /\ modifying = {}
    /\ events = 0
    /\ registrations = <<>>
    /\ unloads = <<>>
    /\ emitted = <<>>
    /\ gone = {}
    /\ skipped = EmptyMap
    /\ touched = {}
    /\ stored = [f \in Docs |-> 0]

NextRebuild ==
    \/ BootLoad
    \/ BootReadDone
    \/ \E i \in 0..(MaxWorkers - 1) : WorkerRespond(i)

SpecRebuild == InitRebuild /\ [][NextRebuild]_vars

\* ================================================================ claims
Resolves == InFlight /\ flush'.pc = "resolved"
Rejects == InFlight /\ flush'.pc = "rejected"

\* C1 (as claimed): when a process restart follows a persistMemory that
\* resolved, every key k that this persistMemory wrote and that was not
\* mutated since it took its snapshot has getValue(k) = loadValue(V) after
\* loadDatabase, V being the value storeKey gave it.
C1_RoundTrip ==
    [][(flush.pc = "resolved" /\ restarts' = restarts + 1) =>
          \A k \in DOMAIN flush.to_set \ DOMAIN since :
              getValue(memory', k) = <<loadValue(flush.to_set[k].data)>>]_vars

\* C2 (as claimed): no key is in deleted_keys and in memory at the same time.
C2_PendingNotCached == DOMAIN memory \cap deleted_keys = {}

\* C3 (as claimed): when persistMemory fails (setItems or a removeItem
\* rejects), every entry it found dirty and that was not mutated meanwhile is
\* still dirty, and every key that was pending when it began is still pending.
C3_FailureKeepsMarkers ==
    [][Rejects =>
          /\ \A k \in (DOMAIN flush.to_set \cap DOMAIN memory') \ DOMAIN since' :
                 memory'[k].dirty
          /\ flush.pending0 \subseteq deleted_keys']_vars

C5_DeletedStaysAbsent == Registered => gone \cap DOMAIN memory = {}

\* C6: when every worker of workerParseFiles has responded, for a list of N
\* documents and W workers, exactly one store has been made for each document
\* of the list and none for any other, and the key of each document holds the
\* loaded result of that document's text, with the document's mtime, dirty.
C6_ChunkAlignment ==
    (Registered /\ pool = EmptyMap) =>
        /\ \A f \in Docs : stored[f] = (IF f \in Range(boot.list) THEN 1 ELSE 0)
        /\ DOMAIN memory = {files[f].path : f \in Range(boot.list)}
        /\ \A f \in Range(boot.list) :
              memory[files[f].path] = [data |-> loadValue(Nodes(Text(f))),
                                       mtime |-> files[f].mtime, dirty |-> TRUE]

\* C6 witness: 3 documents and 2 workers, both have responded.
C6_Witness ==
    /\ Registered
    /\ pool = EmptyMap
    /\ Len(boot.list) = 3
    /\ workers = 2
    /\ \A f \in Range(boot.list) : stored[f] = 1

\* C7: a document that syncDatabase (line 232) or regularParseFiles (line
\* 189) finds with a cached mtime greater than or equal to the file's mtime is
\* never handed to the extractor by the sync and no store of the sync is made
\* for it, on either path; and while the vault does not change its entry stays
\* as it was found.
C7_StalenessMonotonicity ==
    \A f \in DOMAIN skipped :
        /\ f \notin touched
        /\ stored[f] = 0
        /\ events = 0 => /\ skipped[f].path \in DOMAIN memory
                         /\ memory[skipped[f].path] = skipped[f].entry

\* C7 witness: a sync on the worker-pool path is over, every worker has
\* responded, one document was found with a cached mtime equal to the file's
\* and was left alone, another was parsed and stored.
C7_Witness ==
    /\ boot.label = "sync"
    /\ Registered
    /\ bulk = BulkDocs
    /\ pool = EmptyMap
    /\ events = 0
    /\ \E f \in DOMAIN skipped : skipped[f].entry.mtime = files[f].mtime
    /\ \E f \in touched : stored[f] = 1

\* C8 (as claimed): the 'delete' handler, for a file whose path is not a key
\* of the cache, does not throw and leaves memory and deleted_keys as they
\* were.
C8_DeleteAbsentIsNoOp ==
    [][\A f \in Docs :
          (Registered /\ files[f].path \notin DOMAIN memory /\ VaultDelete(f)) =>
              (~outcome'.threw /\ UNCHANGED <<memory, deleted_keys>>)]_vars

\* C9: deleteKey(key) with key absent, and renameKey(oldKey, newKey, mtime)
\* with oldKey absent, throw and leave memory and deleted_keys as they were.
C9_AbsentKeyThrows ==
    [][/\ \A key \in Keys :
             (key \notin DOMAIN memory /\ Call /\ DeleteKey(key)) =>
                 (outcome' = Threw("deleteKey") /\ UNCHANGED <<memory, deleted_keys>>)
       /\ \A oldKey \in Keys, newKey \in Keys, mtime \in Times :
             (oldKey \notin DOMAIN memory /\ Call /\ RenameKey(oldKey, newKey, mtime)) =>
                 (outcome' = Threw("renameKey") /\ UNCHANGED <<memory, deleted_keys>>)]_vars

\* C9 witness: renameKey has outcome in a state with cached entries and
\* pending deletions.
C9_Witness ==
    /\ outcome = Threw("renameKey")
    /\ DOMAIN memory # {}
    /\ deleted_keys # {}

\* C10 (as claimed): renameKey(oldKey, newKey, mtime) with oldKey present
\* leaves under newKey the value oldKey held, with mtime, and removes oldKey
\* when the two keys differ.
C10_RenamePreservesValue ==
    [][\A oldKey \in Keys, newKey \in Keys, mtime \in Times :
          (oldKey \in DOMAIN memory /\ Call /\ RenameKey(oldKey, newKey, mtime)) =>
              /\ newKey \in DOMAIN memory'
              /\ memory'[newKey].data = memory[oldKey].data
              /\ memory'[newKey].mtime = mtime
              /\ (newKey # oldKey => oldKey \notin DOMAIN memory')]_vars

\* C11: when loadDatabase has resolved, one of three branches is taken. With a
\* stored version below the configured one and a loaded cache that is not
\* empty: migrate (memory is cleared, then the store, then every markdown
\* file is rebuilt, then 'database-migrate' is emitted). Otherwise, with an
\* empty loaded cache: create (every markdown file is rebuilt, then
\* 'database-create' is emitted). Otherwise: sync, and neither is emitted.
\* The branch does not change afterwards.
C11_StartupDecision ==
    [][/\ (boot.pc = "load" /\ boot'.pc # "load") =>
            LET m == LoadDatabase(persist)
            IN IF stored_version # 0 /\ stored_version < Version /\ DOMAIN m # {}
               THEN boot'.label = "migrate" /\ boot'.pc = "clear" /\ memory' = EmptyMap
               ELSE IF DOMAIN m = {}
               THEN boot'.label = "create" /\ boot'.pc = "read" /\ boot'.list = MarkdownFiles
               ELSE boot'.label = "sync" /\ boot'.pc \in {"extract", "bulk", "read", "ready"}
       /\ (boot.pc = "clear" /\ boot'.pc # "clear") =>
            /\ memory = EmptyMap
            /\ persist' = EmptyMap
            /\ boot'.label = "migrate" /\ boot'.pc = "read" /\ boot'.list = MarkdownFiles
       /\ boot.label # "none" => boot'.label = boot.label
       /\ boot'.pc # "ready" => emitted' = <<>>
       /\ boot'.pc = "ready" =>
            emitted' = (IF boot'.label = "migrate" THEN <<"database-migrate">>
                        ELSE IF boot'.label = "create" THEN <<"database-create">>
                        ELSE <<>>)]_vars

\* C11 witness: a migration is over: the loaded cache was not empty, the store
\* has been cleared and 'database-migrate' has been emitted.
C11_Witness ==
    /\ boot.pc = "ready"
    /\ boot.label = "migrate"
    /\ notified.payload # <<>>
    /\ DOMAIN notified.payload[1] # {}
    /\ persist = EmptyMap
    /\ emitted = <<"database-migrate">>

\* C12 (as claimed): when 'database-create' or 'database-migrate' is emitted,
\* the result of every file handed to the rebuild has been stored: the cache
\* has an entry for each of them.
C12_EmittedAfterRebuild ==
    [][emitted' # emitted =>
          \A f \in Range(boot'.list) :
              stored'[f] >= 1 /\ files'[f].path \in DOMAIN memory']_vars

\* C13: a call of storeKey, deleteKey or renameKey emits no 'database-update'
\* itself, it schedules databaseUpdate's callback (unless it throws); the
\* callback runs only when it is scheduled, its run takes the schedule away
\* (so the calls made since the last run get one run) and its payload is the
\* cache as it is then; hence whenever no run is scheduled, the payload of the
\* last 'database-update' has the keys, values and mtimes of the cache.
C13_DebouncedNotification ==
    [][/\ calls' # calls =>
            /\ notified' = notified
            /\ outcome'.threw \/ update_timer'
       /\ notified'.runs # notified.runs =>
            /\ notified'.runs = notified.runs + 1
            /\ update_timer /\ ~update_timer'
            /\ memory' = memory
            /\ notified'.payload = <<memory'>>
       /\ ~update_timer' =>
            LET payload == IF notified'.payload = <<>> THEN EmptyMap ELSE notified'.payload[1]
            IN /\ DOMAIN payload = DOMAIN memory'
               /\ \A k \in DOMAIN payload :
                     payload[k].data = memory'[k].data /\ payload[k].mtime = memory'[k].mtime]_vars

\* C13 witness: two calls have put two keys in the cache, the callback has
\* run once, with both, and no run is scheduled.
C13_Witness ==
    /\ calls = 2
    /\ notified.runs = 1
    /\ ~update_timer
    /\ Cardinality(DOMAIN memory) = 2
    /\ notified.payload = <<memory>>

\* The store holds exactly the entries of the cache, no entry is dirty and no
\* deletion is pending.
Persisted ==
    /\ DOMAIN persist = DOMAIN memory
    /\ \A k \in DOMAIN memory :
          /\ persist[k].data = StructuredClone(memory[k].data)
          /\ persist[k].mtime = memory[k].mtime
          /\ ~memory[k].dirty
    /\ deleted_keys = {}

\* C14 (as claimed): when the calls of storeKey, deleteKey and renameKey have
\* stopped and the store does not fail, from some flush on the store holds
\* exactly the entries of the cache, no entry is dirty and no deletion is
\* pending.
C14_EventualPersistence == <>[]Persisted

\* C15: when syncDatabase has returned from the small-batch path and the vault
\* has not changed, with m0 the cache as loaded: the keys of the cache are the
\* paths of the markdown files; the keys of m0 that are no such path are
\* pending deletions; a file whose path is not in m0 or has an older mtime
\* there has the entry of its extracted value, its mtime, dirty; every other
\* entry is as in m0.
C15_SyncResult ==
    (boot.pc = "ready" /\ boot.label = "sync" /\ bulk = 0 /\ events = 0) =>
        LET m0 == LoadDatabase(persist)
        IN /\ DOMAIN memory = LivePaths
           /\ deleted_keys = DOMAIN m0 \ LivePaths
           /\ \A f \in Live :
                 LET path == files[f].path
                 IN IF path \notin DOMAIN m0 \/ m0[path].mtime < files[f].mtime
                    THEN memory[path] = [data |-> extractValue(Text(f)),
                                         mtime |-> files[f].mtime, dirty |-> TRUE]
                    ELSE memory[path] = m0[path]

\* C15 witness: such a sync has returned; it deleted a key, parsed a file whose
\* entry was older and left another file's entry alone.
C15_Witness ==
    /\ boot.pc = "ready" /\ boot.label = "sync" /\ bulk = 0 /\ events = 0
    /\ deleted_keys # {}
    /\ DOMAIN skipped # {}
    /\ \E f \in Live :
          /\ stored[f] = 1
          /\ files[f].path \in DOMAIN persist
          /\ persist[files[f].path].mtime < files[f].mtime

\* C16 (as claimed): when the configured version is written to localStorage,
\* every file that the sync or rebuild handed to the extractor has had its
\* result stored.
C16_VersionAfterStores ==
    [][stored_version' # stored_version =>
          \A f \in touched' : stored'[f] >= 1]_vars

\* C17 (as claimed): when unload() has been called, at whatever point, and the
\* startup is over, no handler of the vault's events is registered.
C17_UnloadReleasesAll ==
    (unloads # <<>> /\ boot.pc = "ready") => registrations = <<>>

\* C18 (as claimed): while the process runs, a key leaves deleted_keys only
\* when persistMemory has issued its removeItem.
C18_PendingUntilRemoved ==
    [][restarts' = restarts =>
          \A k \in deleted_keys \ deleted_keys' : k \in flush.to_remove]_vars

\* C19 (as claimed): every entry stored by an extraction path (a worker's
\* response, the small-batch parse, the 'modify' handler) carries as mtime
\* the modification time of the text its value was extracted from.
C19_ValueAndTimestampCoherent ==
    [][stored' # stored \/ (modifying' \subseteq modifying /\ modifying' # modifying) =>
          \A k \in DOMAIN memory' :
              k \notin DOMAIN memory \/ memory'[k] # memory[k] =>
                  memory'[k].data.raw.rev = memory'[k].mtime]_vars

\* The store, the vault and the stored version are such that the startup
\* takes the incremental sync and that sync finds every document unchanged:
\* no vault event and no flush so far (the store is as the previous session
\* left it), every stored key is the path of a document, and every document
\* has a stored entry not older than the document.
QuietStart ==
    /\ events = 0
    /\ flush = FlushIdle
    /\ bulk = 0
    /\ boot.label \in {"none", "sync"}
    /\ stored_version = 0 \/ stored_version >= Version
    /\ DOMAIN persist # {}
    /\ DOMAIN persist \subseteq LivePaths
    /\ \A f \in Live : /\ files[f].path \in DOMAIN persist
                       /\ persist[files[f].path].mtime >= files[f].mtime

NoneDirty(m) == \A k \in DOMAIN m : ~m[k].dirty

\* C20: the entries loadDatabase loads are not dirty; a flush that begins with
\* no entry dirty and no deletion pending, and during which no deletion gets
\* pending, leaves the store unchanged; hence a startup whose incremental sync
\* finds every document unchanged leaves the store as it was and the cache as
\* loaded, and schedules neither debouncer.
C20_QuietStartupWritesNothing ==
    [][/\ boot.pc = "load" /\ boot'.pc # "load" => NoneDirty(memory')
       /\ flush.pc # "setItems" /\ flush'.pc = "setItems" /\ NoneDirty(memory)
              /\ deleted_keys = {} =>
            flush'.to_set = EmptyMap /\ persist' = persist
       /\ flush.pc = "setItems" /\ flush'.pc # "setItems" /\ flush.to_set = EmptyMap
              /\ deleted_keys = {} =>
            persist' = persist /\ flush'.pc = "resolved"
       /\ QuietStart /\ events' = 0 =>
            /\ persist' = persist
            /\ memory' = LoadDatabase(persist)
            /\ deleted_keys' = {}
            /\ ~update_timer' /\ ~flush_timer'
            /\ flush' = FlushIdle]_vars

\* the startup has finished on a quiet start, with one document older than
\* its stored entry
C20_Witness ==
    /\ QuietStart
    /\ boot.pc = "ready"
    /\ boot.label = "sync"
    /\ \E f \in Live : persist[files[f].path].mtime > files[f].mtime
    /\ memory = LoadDatabase(persist)

====
